---- MODULE Spec2Model ----
(***************************************************************************)
(* scrapy/utils/datatypes.py: PriorityQueue, PriorityStack and the dicts.  *)
(*                                                                         *)
(* A deque is a sequence whose index 1 is the LEFT end: appendleft puts an *)
(* element in front, append and pop work on the right end.  A defaultdict  *)
(* of deques is a function from its keys to sequences.  The code never     *)
(* compares or inspects an item, so every push enqueues a distinct opaque  *)
(* object, named by the serial number of the push.                         *)
(***************************************************************************)
EXTENDS Integers, Sequences, FiniteSets, TLC

\* Priorities range over -PrioBound .. PrioBound.
PrioBound == 2
\* At most MaxPush push calls are made in one run.
MaxPush == 4
\* At most MaxIter consecutive complete traversals are counted.
MaxIter == 2

Priorities == (0 - PrioBound) .. PrioBound
Variants == {"PriorityQueue", "PriorityStack"}

VARIABLES
    variant,    \* the class of the object
    negitems,   \* self.negitems : defaultdict(deque)
    pzero,      \* self.pzero    : deque
    positems,   \* self.positems : defaultdict(deque)
    op,         \* the last call made: "init", "push", "pop", "iter"
    raised,     \* TRUE iff the last call was a pop that raised IndexError
    ret,        \* the (item, priority) returned by the last pop, else << >>
    yielded,    \* list(iter(self)) of the last call when it was a traversal
    pending,    \* history: the (item, priority) pairs pushed and not yet popped, in push order
    npush,      \* history: number of push calls
    npop,       \* history: number of pop calls that returned
    recreated,  \* history: the last push put its item into the bucket that the pop
                \* just before it had emptied, nothing else being pending
    niter,      \* history: complete traversals made since the last push or pop
    ref,        \* a reference queue given the same calls: one mapping from
                \* priority, 0 included, to deque
    twin,       \* an object of the other class given the same calls
    it,         \* the iterator iter(self) returned last, advanced one next() at a time
    out,        \* what the last next(it) did: yield a pair, stop or raise
    mvd,        \* a MultiValueDict: its keys, each with the list object stored under it
    heap,       \* the contents of the list objects stored in mvd
    mcall,      \* the last call made on mvd, with its arguments
    cd,         \* a CaselessDict: its stored keys, each with its value
    ccall       \* the last call made on cd, with its arguments and its result

\* The queue, what its last call returned and its history.
qvars == <<variant, negitems, pzero, positems, op, raised, ret, yielded,
           pending, npush, npop, recreated, niter, ref>>

\* The two dictionaries and their last calls.
dvars == <<mvd, heap, mcall, cd, ccall>>

vars == <<qvars, twin, it, out, dvars>>

----------------------------------------------------------------------------
(* Sequences and dictionaries *)

Last(s) == s[Len(s)]
\* Faulty variant: the element at the left end is the one taken away.
Front_Tail(s) == SubSeq(s, 2, Len(s))

Front(s) == SubSeq(s, 1, Len(s) - 1)

RECURSIVE reversed(_)
reversed(s) == IF s = << >> THEN << >> ELSE Append(reversed(Tail(s)), Head(s))

EmptyDict == [k \in {} |-> << >>]

SetItem(d, k, v) == [x \in DOMAIN d \cup {k} |-> IF x = k THEN v ELSE d[x]]

\* Faulty variant: the key is not deleted, its deque is left as it is.
DelItem_Nothing(d, k) == d

DelItem(d, k) == [x \in DOMAIN d \ {k} |-> d[x]]

\* defaultdict.__getitem__: a missing key is inserted with an empty deque.
Missing(d, k) == SetItem(d, k, << >>)

GetItem(d, k) ==
    IF k \in DOMAIN d THEN [value |-> d[k], dict |-> d]
    ELSE [value |-> << >>, dict |-> Missing(d, k)]

MinOf(S) == CHOOSE x \in S : \A y \in S : x <= y

RECURSIVE sorted(_)
sorted(S) == IF S = {} THEN << >> ELSE <<MinOf(S)>> \o sorted(S \ {MinOf(S)})

keys(d) == DOMAIN d

\* Faulty variant: the item goes to the right end.
appendleft_AtRight(deq, item) == Append(deq, item)

appendleft(deq, item) == <<item>> \o deq

\* Faulty variant: the item goes to the left end.
append_AtLeft(deq, item) == <<item>> \o deq

append(deq, item) == Append(deq, item)

----------------------------------------------------------------------------
(* push *)

PriorityQueue_push(neg, zero, pos, item, priority) ==
    IF priority = 0
    THEN [neg |-> neg, zero |-> appendleft(zero, item), pos |-> pos]
    ELSE IF priority < 0
    THEN LET g == GetItem(neg, priority)
         IN [neg |-> SetItem(g.dict, priority, appendleft(g.value, item)),
             zero |-> zero, pos |-> pos]
    ELSE LET g == GetItem(pos, priority)
         IN [neg |-> neg, zero |-> zero,
             pos |-> SetItem(g.dict, priority, appendleft(g.value, item))]

\* Faulty variant: "if priority <= 0" files the negative priorities in pzero.
PriorityStack_push_NegInZero(neg, zero, pos, item, priority) ==
    IF priority <= 0
    THEN [neg |-> neg, zero |-> append(zero, item), pos |-> pos]
    ELSE LET g == GetItem(pos, priority)
         IN [neg |-> neg, zero |-> zero,
             pos |-> SetItem(g.dict, priority, append(g.value, item))]

PriorityStack_push(neg, zero, pos, item, priority) ==
    IF priority = 0
    THEN [neg |-> neg, zero |-> append(zero, item), pos |-> pos]
    ELSE IF priority < 0
    THEN LET g == GetItem(neg, priority)
         IN [neg |-> SetItem(g.dict, priority, append(g.value, item)),
             zero |-> zero, pos |-> pos]
    ELSE LET g == GetItem(pos, priority)
         IN [neg |-> neg, zero |-> zero,
             pos |-> SetItem(g.dict, priority, append(g.value, item))]

push(v, neg, zero, pos, item, priority) ==
    IF v = "PriorityStack"
    THEN PriorityStack_push(neg, zero, pos, item, priority)
    ELSE PriorityQueue_push(neg, zero, pos, item, priority)

----------------------------------------------------------------------------
(* pop *)

\* Faulty variant: the emptied deque stays in the mapping.
DropIfEmpty_Keep(d, priority, deq) == SetItem(d, priority, deq)

\* "if not deq: del self.negitems[priority]" after deq.pop()
DropIfEmpty(d, priority, deq) ==
    IF deq = << >> THEN DelItem(d, priority) ELSE SetItem(d, priority, deq)

\* The "for priority in priorities" loop of pop over one mapping: found is
\* FALSE when the loop ends without returning.
RECURSIVE PopLoop(_, _)
PopLoop(d, priorities) ==
    IF priorities = << >>
    THEN [found |-> FALSE, t |-> << >>, dict |-> d]
    ELSE LET priority == Head(priorities)
             deq == d[priority]
         IN IF deq # << >>
            THEN [found |-> TRUE,
                  t |-> <<Last(deq), priority>>,
                  dict |-> DropIfEmpty(d, priority, Front(deq))]
            ELSE PopLoop(d, Tail(priorities))

\* Faulty variant: the keys are sorted in descending order.
SortedKeys_Descending(d) == reversed(sorted(keys(d)))

\* priorities = d.keys(); priorities.sort()
SortedKeys(d) == sorted(keys(d))

\* Faulty variant: the zero bucket is looked at before the negative mapping.
pop_ZeroFirst(neg, zero, pos) ==
    IF zero # << >>
    THEN [raised |-> FALSE, t |-> <<Last(zero), 0>>,
          neg |-> neg, zero |-> Front(zero), pos |-> pos]
    ELSE IF keys(neg) # {}
    THEN LET r == PopLoop(neg, SortedKeys(neg))
         IN [raised |-> ~r.found, t |-> r.t,
             neg |-> r.dict, zero |-> zero, pos |-> pos]
    ELSE LET r == PopLoop(pos, SortedKeys(pos))
         IN [raised |-> ~r.found, t |-> r.t,
             neg |-> neg, zero |-> zero, pos |-> r.dict]

\* pop: raised is TRUE when control reaches "raise IndexError".
pop(neg, zero, pos) ==
    IF keys(neg) # {}
    THEN LET r == PopLoop(neg, SortedKeys(neg))
         IN [raised |-> ~r.found, t |-> r.t,
             neg |-> r.dict, zero |-> zero, pos |-> pos]
    ELSE IF zero # << >>
    THEN [raised |-> FALSE, t |-> <<Last(zero), 0>>,
          neg |-> neg, zero |-> Front(zero), pos |-> pos]
    ELSE LET r == PopLoop(pos, SortedKeys(pos))
         IN [raised |-> ~r.found, t |-> r.t,
             neg |-> neg, zero |-> zero, pos |-> r.dict]

----------------------------------------------------------------------------
(* __len__, __nonzero__, __iter__ *)

RECURSIVE SumLen(_, _)
SumLen(d, ks) ==
    IF ks = {} THEN 0
    ELSE LET k == CHOOSE x \in ks : TRUE
         IN Len(d[k]) + SumLen(d, ks \ {k})

\* Faulty variant: the zero bucket is not counted.
length_NoZero(neg, zero, pos) ==
    SumLen(neg, keys(neg)) + SumLen(pos, keys(pos))

length(neg, zero, pos) ==
    SumLen(neg, keys(neg)) + Len(zero) + SumLen(pos, keys(pos))

\* Faulty variant: the zero bucket is not looked at.
nonzero_NoZero(neg, zero, pos) ==
    keys(neg) # {} \/ keys(pos) # {}

nonzero(neg, zero, pos) ==
    keys(neg) # {} \/ zero # << >> \/ keys(pos) # {}

isEmpty(neg, zero, pos) == ~nonzero(neg, zero, pos)

\* Faulty variant: the traversal takes the items out of the deque.
Visit_Draining(d, priority) ==
    [items |-> reversed(d[priority]), dict |-> SetItem(d, priority, << >>)]

\* "for i in reversed(self.negitems[priority])": the items the inner loop
\* visits and the mapping after the subscript.
Visit(d, priority) ==
    LET g == GetItem(d, priority)
    IN [items |-> reversed(g.value), dict |-> g.dict]

Pairs(items, priority) == [i \in 1 .. Len(items) |-> <<items[i], priority>>]

\* One of the generators gen_negs and gen_pos, run to exhaustion.
RECURSIVE Gen(_, _)
Gen(d, priorities) ==
    IF priorities = << >>
    THEN [out |-> << >>, dict |-> d]
    ELSE LET priority == Head(priorities)
             v == Visit(d, priority)
             rest == Gen(v.dict, Tail(priorities))
         IN [out |-> Pairs(v.items, priority) \o rest.out, dict |-> rest.dict]

\* gen_zeros = ((item, 0) for item in self.pzero)
GenZeros(zero) == Pairs(zero, 0)

\* Faulty variant: chain(gen_zeros, gen_negs, gen_pos).
iter_ZerosFirst(neg, zero, pos) ==
    LET n == Gen(neg, sorted(keys(neg)))
        p == Gen(pos, sorted(keys(pos)))
    IN [out |-> GenZeros(zero) \o n.out \o p.out,
        neg |-> n.dict, zero |-> zero, pos |-> p.dict]

\* list(iter(self)): chain(gen_negs, gen_zeros, gen_pos) run to exhaustion
\* with no other call in between.
iter(neg, zero, pos) ==
    LET n == Gen(neg, sorted(keys(neg)))
        p == Gen(pos, sorted(keys(pos)))
    IN [out |-> n.out \o GenZeros(zero) \o p.out,
        neg |-> n.dict, zero |-> zero, pos |-> p.dict]

----------------------------------------------------------------------------
(* History *)

RECURSIVE Remove(_, _)
Remove(s, e) ==
    IF s = << >> THEN << >>
    ELSE IF Head(s) = e THEN Tail(s)
    ELSE <<Head(s)>> \o Remove(Tail(s), e)

PrioritiesOf(s) == {s[i][2] : i \in 1 .. Len(s)}

----------------------------------------------------------------------------
(* The state machine *)

(* The reference queue of the design notes: the zero bucket is an ordinary
   bucket at key 0 of the one mapping. *)
RefPush(v, b, item, priority) ==
    LET old == IF priority \in DOMAIN b THEN b[priority] ELSE << >>
    IN [k \in DOMAIN b \cup {priority} |->
           IF k # priority THEN b[k]
           ELSE IF v = "PriorityStack" THEN old \o <<item>> ELSE <<item>> \o old]

RefPop(b) ==
    IF DOMAIN b = {}
    THEN [raised |-> TRUE, t |-> << >>, b |-> b]
    ELSE LET p == CHOOSE k \in DOMAIN b : \A x \in DOMAIN b : k <= x
             n == Len(b[p])
         IN [raised |-> FALSE,
             t |-> <<b[p][n], p>>,
             b |-> IF n = 1 THEN [k \in DOMAIN b \ {p} |-> b[k]]
                   ELSE [b EXCEPT ![p] = SubSeq(b[p], 1, n - 1)]]

RECURSIVE RefLength(_)
RefLength(b) ==
    IF DOMAIN b = {} THEN 0
    ELSE LET k == CHOOSE x \in DOMAIN b : TRUE
         IN Len(b[k]) + RefLength([x \in DOMAIN b \ {k} |-> b[x]])

RefIsEmpty(b) == DOMAIN b = {}

OtherVariant == IF variant = "PriorityQueue" THEN "PriorityStack" ELSE "PriorityQueue"

InitQueue ==
    /\ variant \in Variants
    /\ negitems = EmptyDict
    /\ pzero = << >>
    /\ positems = EmptyDict
    /\ op = "init"
    /\ raised = FALSE
    /\ ret = << >>
    /\ yielded = << >>
    /\ pending = << >>
    /\ npush = 0
    /\ npop = 0
    /\ recreated = FALSE
    /\ niter = 0
    /\ ref = EmptyDict

InitTwin ==
    twin = [neg |-> EmptyDict, zero |-> << >>, pos |-> EmptyDict,
            raised |-> FALSE, ret |-> << >>]

\* No iterator has been made.
NoIterator ==
    [live |-> FALSE, stage |-> "done", negkeys |-> << >>, poskeys |-> << >>,
     active |-> FALSE, cur |-> << >>, curp |-> 0, curmut |-> FALSE,
     zleft |-> << >>, zmut |-> FALSE]

NoOutput == [kind |-> "none", pair |-> << >>]

InitIterator == it = NoIterator /\ out = NoOutput

\* MultiValueDict(): no key, no list object
NoMvdCall ==
    [name |-> "init", key |-> "", value |-> "", list_ |-> << >>, of |-> "",
     other |-> "none", lists |-> << >>, items |-> << >>, kwargs |-> << >>]

InitMultiValueDict ==
    /\ mvd = [k \in {} |-> 0]
    /\ heap = [o \in {} |-> << >>]
    /\ mcall = NoMvdCall

\* CaselessDict(): no key
NoCaselessCall ==
    [name |-> "init", key |-> << >>, value |-> "", seq |-> << >>,
     args |-> << >>, result |-> "None"]

InitCaselessDict ==
    /\ cd = EmptyDict
    /\ ccall = NoCaselessCall

Init ==
    InitQueue /\ InitTwin /\ InitIterator /\ InitMultiValueDict /\ InitCaselessDict

\* self.push(item, priority), the item being a new object
PushCall(priority) ==
    /\ npush < MaxPush
    /\ LET item == npush + 1
           r == push(variant, negitems, pzero, positems, item, priority)
       IN /\ negitems' = r.neg
          /\ pzero' = r.zero
          /\ positems' = r.pos
          /\ pending' = Append(pending, <<item, priority>>)
          /\ recreated' = (/\ op = "pop" /\ ~raised /\ pending = << >>
                           /\ ret[2] = priority)
          /\ ref' = RefPush(variant, ref, item, priority)
    /\ npush' = npush + 1
    /\ op' = "push"
    /\ raised' = FALSE
    /\ ret' = << >>
    /\ yielded' = << >>
    /\ niter' = 0
    /\ UNCHANGED <<variant, npop>>

\* self.pop()
PopCall ==
    /\ LET r == pop(negitems, pzero, positems)
       IN /\ negitems' = r.neg
          /\ pzero' = r.zero
          /\ positems' = r.pos
          /\ raised' = r.raised
          /\ ret' = r.t
          /\ pending' = IF r.raised THEN pending ELSE Remove(pending, r.t)
          /\ npop' = IF r.raised THEN npop ELSE npop + 1
    /\ ref' = RefPop(ref).b
    /\ op' = "pop"
    /\ yielded' = << >>
    /\ niter' = 0
    /\ UNCHANGED <<variant, npush, recreated>>

Push ==
    /\ \E priority \in Priorities : PushCall(priority)
    /\ UNCHANGED <<twin, it, out, dvars>>

Pop ==
    /\ PopCall
    /\ UNCHANGED <<twin, it, out, dvars>>

Iterate ==
    /\ LET r == iter(negitems, pzero, positems)
       IN /\ negitems' = r.neg
          /\ pzero' = r.zero
          /\ positems' = r.pos
          /\ yielded' = r.out
    /\ op' = "iter"
    /\ raised' = FALSE
    /\ ret' = << >>
    /\ niter' = IF niter < MaxIter THEN niter + 1 ELSE niter
    /\ UNCHANGED <<variant, pending, npush, npop, recreated, ref, twin, it, out, dvars>>

Next == Push \/ Pop \/ Iterate

Spec == Init /\ [][Next]_vars

(* Two objects, one of each class, given the same calls. *)

PairPush ==
    \E priority \in Priorities :
       /\ PushCall(priority)
       /\ LET r == push(OtherVariant, twin.neg, twin.zero, twin.pos,
                        npush + 1, priority)
          IN twin' = [neg |-> r.neg, zero |-> r.zero, pos |-> r.pos,
                      raised |-> FALSE, ret |-> << >>]
       /\ UNCHANGED <<it, out, dvars>>

PairPop ==
    /\ PopCall
    /\ LET r == pop(twin.neg, twin.zero, twin.pos)
       IN twin' = [neg |-> r.neg, zero |-> r.zero, pos |-> r.pos,
                   raised |-> r.raised, ret |-> r.t]
    /\ UNCHANGED <<it, out, dvars>>

NextPair == PairPush \/ PairPop

SpecPair == Init /\ [][NextPair]_vars

(***************************************************************************)
(* The iterator advanced one next() at a time, between other calls.        *)
(*                                                                         *)
(* A generator expression evaluates its outermost iterable when it is      *)
(* made: sorted(self.negitems.keys()), iter(self.pzero) and                *)
(* sorted(self.positems.keys()) are taken by __iter__.  The inner          *)
(* reversed(self.negitems[priority]) is evaluated when the generator       *)
(* reaches that priority, and subscripts the defaultdict then.  A deque    *)
(* iterator raises RuntimeError when its deque was changed after the       *)
(* iterator was made; the reverse iterator looks for remaining items       *)
(* first, the forward iterator for the change first.  A generator that     *)
(* raised is finished, and chain goes on with the next generator.          *)
(***************************************************************************)

\* iter(self)
NewIterator(neg, zero, pos) ==
    [live |-> TRUE, stage |-> "neg",
     negkeys |-> sorted(keys(neg)), poskeys |-> sorted(keys(pos)),
     active |-> FALSE, cur |-> << >>, curp |-> 0, curmut |-> FALSE,
     zleft |-> zero, zmut |-> FALSE]

\* A push or pop changed the deque of priority p: the deque iterators made
\* on it before see the change.
Touch(i, p) ==
    IF ~i.live THEN i
    ELSE IF p = 0 THEN [i EXCEPT !.zmut = TRUE]
    ELSE IF i.active /\ i.curp = p THEN [i EXCEPT !.curmut = TRUE]
    ELSE i

Yield(i, neg, pos, pair) ==
    [it |-> i, neg |-> neg, pos |-> pos, out |-> [kind |-> "yield", pair |-> pair]]

Raise(i, neg, pos) ==
    [it |-> i, neg |-> neg, pos |-> pos, out |-> [kind |-> "error", pair |-> << >>]]

Inactive(i) == [i EXCEPT !.active = FALSE, !.cur = << >>, !.curp = 0, !.curmut = FALSE]

\* next(it): the chain runs until a generator yields or raises, or until the
\* last generator is exhausted.
RECURSIVE Advance(_, _, _)
Advance(i, neg, pos) ==
    IF i.stage = "done"
    THEN [it |-> i, neg |-> neg, pos |-> pos, out |-> [kind |-> "stop", pair |-> << >>]]
    ELSE IF i.stage = "zero"
    THEN IF i.zmut
         THEN Raise([i EXCEPT !.stage = "pos", !.zleft = << >>, !.zmut = FALSE], neg, pos)
         ELSE IF i.zleft = << >>
         THEN Advance([i EXCEPT !.stage = "pos"], neg, pos)
         ELSE Yield([i EXCEPT !.zleft = Tail(i.zleft)], neg, pos, <<Head(i.zleft), 0>>)
    ELSE LET inneg == i.stage = "neg"
             after == IF inneg THEN "zero" ELSE "done"
             left == IF inneg THEN i.negkeys ELSE i.poskeys
         IN IF i.active
            THEN IF i.cur = << >>
                 THEN Advance(Inactive(i), neg, pos)
                 ELSE IF i.curmut
                 THEN Raise([Inactive(i) EXCEPT !.stage = after,
                                                !.negkeys = IF inneg THEN << >> ELSE @,
                                                !.poskeys = IF inneg THEN @ ELSE << >>],
                            neg, pos)
                 ELSE Yield([i EXCEPT !.cur = Tail(i.cur)], neg, pos,
                            <<Head(i.cur), i.curp>>)
            ELSE IF left = << >>
            THEN Advance([i EXCEPT !.stage = after], neg, pos)
            ELSE LET priority == Head(left)
                     v == Visit(IF inneg THEN neg ELSE pos, priority)
                     j == [i EXCEPT !.active = TRUE, !.cur = v.items,
                                    !.curp = priority, !.curmut = FALSE,
                                    !.negkeys = IF inneg THEN Tail(@) ELSE @,
                                    !.poskeys = IF inneg THEN @ ELSE Tail(@)]
                 IN IF inneg THEN Advance(j, v.dict, pos)
                    ELSE Advance(j, neg, v.dict)

ItPush ==
    /\ \E priority \in Priorities :
          /\ PushCall(priority)
          /\ it' = Touch(it, priority)
    /\ out' = NoOutput
    /\ UNCHANGED <<twin, dvars>>

ItPop ==
    /\ PopCall
    /\ it' = IF raised' THEN it ELSE Touch(it, ret'[2])
    /\ out' = NoOutput
    /\ UNCHANGED <<twin, dvars>>

ItCreate ==
    /\ it' = NewIterator(negitems, pzero, positems)
    /\ out' = NoOutput
    /\ op' = "create"
    /\ raised' = FALSE
    /\ ret' = << >>
    /\ UNCHANGED <<variant, negitems, pzero, positems, yielded, pending,
                   npush, npop, recreated, niter, ref, twin, dvars>>

ItNext ==
    /\ it.live
    /\ LET r == Advance(it, negitems, positems)
       IN /\ it' = r.it
          /\ negitems' = r.neg
          /\ positems' = r.pos
          /\ out' = r.out
    /\ op' = "next"
    /\ raised' = FALSE
    /\ ret' = << >>
    /\ UNCHANGED <<variant, pzero, yielded, pending, npush, npop, recreated,
                   niter, ref, twin, dvars>>

NextIter == ItPush \/ ItPop \/ ItCreate \/ ItNext

SpecIter == Init /\ [][NextIter]_vars

----------------------------------------------------------------------------
(* MultiValueDict                                                          *)
(*                                                                         *)
(* A Python list is an object: setlist stores the list it is given, and    *)
(* update extends the stored list in place.  mvd maps a key to the name of *)
(* the list object stored under it and heap maps the name to the list's   *)
(* contents, so that one list stored under two keys is one object.  A     *)
(* dictionary s below is the record [d |-> mvd, heap |-> heap].            *)

KeyOrder == <<"x", "y">>
Keys == {KeyOrder[i] : i \in DOMAIN KeyOrder}

\* The values: an opaque one and one that equals the empty list.
Values == {"a", "[]"}

\* The longest list a key is given
MaxList == 3

\* a list the caller has not stored anywhere yet
NewLists == {<< >>, <<"a">>, <<"[]", "a">>}

\* The list object named o is stored under no key: it is forgotten, and the
\* objects are named by the first key that holds them.
Collect(s) ==
    LET holders(o) == {i \in DOMAIN KeyOrder :
                          KeyOrder[i] \in DOMAIN s.d /\ s.d[KeyOrder[i]] = o}
        used == {s.d[k] : k \in DOMAIN s.d}
    IN [d |-> [k \in DOMAIN s.d |-> MinOf(holders(s.d[k]))],
        heap |-> [n \in {MinOf(holders(o)) : o \in used} |->
                     s.heap[CHOOSE o \in used : MinOf(holders(o)) = n]]]

\* a new list object with the given contents
Alloc(s, contents) ==
    LET o == CHOOSE n \in 1..(Len(KeyOrder) + 2) : n \notin DOMAIN s.heap
    IN [obj |-> o, s |-> [s EXCEPT !.heap = SetItem(s.heap, o, contents)]]

\* dict.__setitem__(self, key, list object)
Bind(s, key, o) == [s EXCEPT !.d = SetItem(s.d, key, o)]

MVD_getitem(s, key) ==
    IF key \notin DOMAIN s.d THEN "MultiValueDictKeyError"
    ELSE IF s.heap[s.d[key]] = << >> THEN "[]"
    ELSE Last(s.heap[s.d[key]])

MVD_setitem(s, key, value) ==
    LET a == Alloc(s, <<value>>) IN Bind(a.s, key, a.obj)

MVD_get(s, key, default) ==
    LET val == MVD_getitem(s, key)
    IN IF val = "MultiValueDictKeyError" THEN default
       ELSE IF val = "[]" THEN default
       ELSE val

\* the contents of the list getlist returns
MVD_getlist(s, key) ==
    IF key \in DOMAIN s.d THEN s.heap[s.d[key]] ELSE << >>

MVD_setlist(s, key, o) == Bind(s, key, o)

\* setlistdefault(key, []): the dictionary afterwards and the list object returned
MVD_setlistdefault(s, key) ==
    IF key \in DOMAIN s.d THEN [s |-> s, obj |-> s.d[key]]
    ELSE LET a == Alloc(s, << >>)
         IN [s |-> MVD_setlist(a.s, key, a.obj), obj |-> a.obj]

MVD_appendlist(s, key, value) ==
    LET r == MVD_setlistdefault(s, key)
        a == Alloc(r.s, MVD_getlist(r.s, key) \o <<value>>)
    IN Bind(a.s, key, a.obj)

\* Faulty variant: the list is replaced by the values given.
extend_Replacing(s, o, values) == [s EXCEPT !.heap[o] = values]

\* list.extend, in place
extend(s, o, values) == [s EXCEPT !.heap[o] = @ \o values]

\* for key, value_list in other_dict.lists(): extend
RECURSIVE ExtendLoop(_, _)
ExtendLoop(s, lists) ==
    IF lists = << >> THEN s
    ELSE LET r == MVD_setlistdefault(s, Head(lists)[1])
         IN ExtendLoop(extend(r.s, r.obj, Head(lists)[2]), Tail(lists))

\* for key, value in other_dict.items(): append
RECURSIVE AppendLoop(_, _)
AppendLoop(s, items) ==
    IF items = << >> THEN s
    ELSE LET r == MVD_setlistdefault(s, Head(items)[1])
         IN AppendLoop(extend(r.s, r.obj, <<Head(items)[2]>>), Tail(items))

MVD_update(s, other, lists, items, kwargs) ==
    LET s1 == IF other = "MultiValueDict" THEN ExtendLoop(s, lists)
              ELSE IF other = "dict" THEN AppendLoop(s, items)
              ELSE s
    IN AppendLoop(s1, kwargs)

\* The (key, x) pairs a dictionary of at most two keys gives when iterated
\* over, x drawn from X, in any order the dictionary may have.
PairsOver(X) ==
    {<< >>}
    \cup {<<(<<k, x>>)>> : k \in Keys, x \in X}
    \cup {<<(<<k[1], x[1]>>), (<<k[2], x[2]>>)>> :
             k \in {kk \in Keys \X Keys : kk[1] # kk[2]}, x \in X \X X}

KwArgs == {<< >>, <<(<<"y", "[]">>)>>}

Self == [d |-> mvd, heap |-> heap]

Fits(s) == \A k \in DOMAIN s.d : Len(s.heap[s.d[k]]) <= MaxList

\* the call leaves the dictionary s
MvdCall(s, call) ==
    /\ Fits(s)
    /\ LET c == Collect(s)
       IN mvd' = c.d /\ heap' = c.heap
    /\ mcall' = call
    /\ UNCHANGED <<qvars, twin, it, out, cd, ccall>>

MvdSetItem ==
    \E key \in Keys, value \in Values :
       MvdCall(MVD_setitem(Self, key, value),
               [NoMvdCall EXCEPT !.name = "setitem", !.key = key, !.value = value])

\* self.setlist(key, list_): list_ is a list of the caller's, or the list that
\* getlist(of) returned
MvdSetList ==
    \E key \in Keys :
       \/ \E contents \in NewLists :
             LET a == Alloc(Self, contents)
             IN MvdCall(MVD_setlist(a.s, key, a.obj),
                        [NoMvdCall EXCEPT !.name = "setlist", !.key = key,
                                          !.list_ = contents])
       \/ \E of \in DOMAIN mvd :
             MvdCall(MVD_setlist(Self, key, mvd[of]),
                     [NoMvdCall EXCEPT !.name = "setlist", !.key = key,
                                       !.list_ = heap[mvd[of]], !.of = of])

MvdAppendList ==
    \E key \in Keys, value \in Values :
       MvdCall(MVD_appendlist(Self, key, value),
               [NoMvdCall EXCEPT !.name = "appendlist", !.key = key,
                                 !.value = value])

\* self.update(other, **kwargs): other is a MultiValueDict or a dict
MvdUpdate ==
    \E kwargs \in KwArgs :
       \/ \E lists \in PairsOver(NewLists) :
             MvdCall(MVD_update(Self, "MultiValueDict", lists, << >>, kwargs),
                     [NoMvdCall EXCEPT !.name = "update", !.other = "MultiValueDict",
                                       !.lists = lists, !.kwargs = kwargs])
       \/ \E items \in PairsOver(Values) :
             MvdCall(MVD_update(Self, "dict", << >>, items, kwargs),
                     [NoMvdCall EXCEPT !.name = "update", !.other = "dict",
                                       !.items = items, !.kwargs = kwargs])

NextMvd == MvdSetItem \/ MvdSetList \/ MvdAppendList \/ MvdUpdate

SpecMvd == Init /\ [][NextMvd]_vars

----------------------------------------------------------------------------
(* The calls as seen from the state *)

Length == length(negitems, pzero, positems)
IsEmpty == isEmpty(negitems, pzero, positems)
Fresh == negitems = EmptyDict /\ pzero = << >> /\ positems = EmptyDict

\* The step is a pop call.
IsPop == op' = "pop"
\* The step is a complete traversal.
IsIter == op' = "iter"

\* The entries of s that have priority p, in the order of s.
RECURSIVE AtPriority(_, _)
AtPriority(s, p) ==
    IF s = << >> THEN << >>
    ELSE IF Head(s)[2] = p THEN <<Head(s)>> \o AtPriority(Tail(s), p)
    ELSE AtPriority(Tail(s), p)

SmallestPending == MinOf(PrioritiesOf(pending))
EarliestPending == Head(AtPriority(pending, SmallestPending))
LatestPending == Last(AtPriority(pending, SmallestPending))

\* What repeated pop calls return until one raises.
RECURSIVE Drain(_, _, _)
Drain(neg, zero, pos) ==
    LET r == pop(neg, zero, pos)
    IN IF r.raised THEN << >>
       ELSE <<r.t>> \o Drain(r.neg, r.zero, r.pos)

\* push(A,0); push(B,-1); push(C,1); push(D,-1) with A, B, C, D = 1, 2, 3, 4
ExamplePushed == << <<1, 0>>, <<2, 0 - 1>>, <<3, 1>>, <<4, 0 - 1>> >>
AfterExamplePushes == npush = 4 /\ npop = 0 /\ pending = ExamplePushed

----------------------------------------------------------------------------
(* Claims *)

\* C1: a pop on a non-empty queue (either variant) returns a pair (item, p),
\* the pair being pending, with p the numerically smallest priority among
\* the items pending when pop is called.
C1_PopReturnsSmallestPriority ==
    [][(IsPop /\ pending # << >>) =>
          /\ ~raised'
          /\ ret' # << >>
          /\ ret'[2] = SmallestPending
          /\ \E i \in 1 .. Len(pending) : pending[i] = ret']_vars

\* A pop returned a negative priority while priorities 0 and two others, of
\* both signs, stay pending.
C1_Witness ==
    /\ op = "pop" /\ ~raised /\ ret # << >>
    /\ ret[2] = 0 - 2
    /\ PrioritiesOf(pending) = {0 - 1, 0, 1}

\* C2: PriorityQueue: pop returns, among the pending items of the smallest
\* pending priority, the one pushed earliest; after the example's four pushes
\* the pops return (B,-1), (D,-1), (A,0), (C,1).
C2_FifoWithinPriority ==
    /\ [][(variant = "PriorityQueue" /\ IsPop /\ pending # << >>) =>
             (~raised' /\ ret' = EarliestPending)]_vars
    /\ []((variant = "PriorityQueue" /\ AfterExamplePushes) =>
             Drain(negitems, pzero, positems)
                = << <<2, 0 - 1>>, <<4, 0 - 1>>, <<1, 0>>, <<3, 1>> >>)

\* The first pop of the example: B is returned while D, pushed later at the
\* same priority, stays pending.
C2_Witness ==
    /\ variant = "PriorityQueue" /\ op = "pop" /\ ~raised
    /\ ret = <<2, 0 - 1>>
    /\ pending = << <<1, 0>>, <<3, 1>>, <<4, 0 - 1>> >>

\* C3: PriorityStack: pop returns, among the pending items of the smallest
\* pending priority, the one pushed most recently; after the example's four
\* pushes the pops return (D,-1), (B,-1), (A,0), (C,1).
C3_LifoWithinPriority ==
    /\ [][(variant = "PriorityStack" /\ IsPop /\ pending # << >>) =>
             (~raised' /\ ret' = LatestPending)]_vars
    /\ []((variant = "PriorityStack" /\ AfterExamplePushes) =>
             Drain(negitems, pzero, positems)
                = << <<4, 0 - 1>>, <<2, 0 - 1>>, <<1, 0>>, <<3, 1>> >>)

\* The first pop of the example: D is returned while B, pushed earlier at the
\* same priority, stays pending.
C3_Witness ==
    /\ variant = "PriorityStack" /\ op = "pop" /\ ~raised
    /\ ret = <<4, 0 - 1>>
    /\ pending = << <<1, 0>>, <<2, 0 - 1>>, <<3, 1>> >>

\* C4: pop raises the empty-queue error if and only if no item is pending,
\* that is, if and only if none of the three bucket structures holds an item;
\* so it raises on a fresh queue and never while an item is pending.
C4_PopFailsIffEmpty ==
    /\ [][IsPop =>
             /\ raised' <=> (pending = << >>)
             /\ raised' <=> (/\ \A k \in keys(negitems) : negitems[k] = << >>
                             /\ pzero = << >>
                             /\ \A k \in keys(positems) : positems[k] = << >>)]_vars
    /\ [](pending = << >> => pop(negitems, pzero, positems).raised)

\* A pop raised on a queue that pushes had filled and pops had emptied.
C4_Witness ==
    /\ op = "pop" /\ raised
    /\ npush >= 3 /\ npop = npush

\* C5: PriorityQueue: a complete traversal yields the sequence of pairs that
\* repeated pops until empty would return from the same state.
C5_IterateIsDrainOrder ==
    (variant = "PriorityQueue" /\ op = "iter") =>
        yielded = Drain(negitems, pzero, positems)

\* C6: PriorityStack: a complete traversal yields the items of every single
\* priority, negative, zero or positive, in push order, oldest first.
C6_StackIteratesInPushOrder ==
    (variant = "PriorityStack" /\ op = "iter") =>
        \A p \in Priorities : AtPriority(yielded, p) = AtPriority(pending, p)

\* C7: length() equals the number of push calls minus the number of pop
\* calls that returned; every push raises it by 1, every returning pop
\* lowers it by 1 and a raising pop leaves it as it was.
C7_LengthIsPushesMinusPops ==
    /\ [](Length = npush - npop)
    /\ [][/\ op' = "push" => Length' = Length + 1
          /\ (IsPop /\ ~raised') => Length' = Length - 1
          /\ (IsPop /\ raised') => Length' = Length]_vars

\* Four pushes and two returning pops leave two items, in the zero bucket
\* and in a positive bucket.
C7_Witness ==
    /\ op = "pop" /\ ~raised
    /\ npush = 4 /\ npop = 2 /\ Length = 2
    /\ pzero # << >> /\ keys(positems) # {}

\* C8: isEmpty(), the negation of __nonzero__, is true if and only if
\* length() = 0.
C8_IsEmptyIffLengthZero == IsEmpty <=> (Length = 0)

\* The queue is empty after a pop took the last item out of a positive
\* bucket.
C8_Witness ==
    /\ IsEmpty /\ Length = 0
    /\ op = "pop" /\ ~raised /\ ret[2] > 0
    /\ npop >= 3

\* C9: a complete traversal leaves the negative mapping, the zero bucket and
\* the positive mapping as they were, and a traversal made right after
\* another yields the same sequence.
C9_IterateLeavesBuckets ==
    [][IsIter =>
          /\ negitems' = negitems
          /\ pzero' = pzero
          /\ positems' = positems
          /\ op = "iter" => yielded' = yielded]_vars

\* A second traversal in a row over items in all three structures.
C9_Witness ==
    /\ op = "iter" /\ niter = 2
    /\ keys(negitems) # {} /\ pzero # << >> /\ keys(positems) # {}
    /\ Len(yielded) = MaxPush

\* C10: whenever no item is pending the state is that of a fresh queue, and
\* a bucket created again right after a pop emptied it gives its item back
\* with its priority, as in push(A,-1); pop(); push(B,-1); pop() returning (B,-1).
C10_NoResidualState ==
    /\ [](pending = << >> => Fresh)
    /\ [][(IsPop /\ recreated /\ op = "push") =>
             (~raised' /\ ret' = pending[1] /\ Fresh')]_vars

\* The example: the second pop returned (B,-1) from the bucket that the
\* first pop had emptied.
C10_Witness ==
    /\ op = "pop" /\ ~raised /\ ret = <<2, 0 - 1>>
    /\ npush = 2 /\ npop = 2
    /\ recreated
    /\ Fresh

----------------------------------------------------------------------------
(* Claims about the buckets *)

\* The deque that holds the items of priority p, empty when there is none.
BucketIn(neg, zero, pos, p) ==
    IF p = 0 THEN zero
    ELSE IF p < 0 THEN (IF p \in keys(neg) THEN neg[p] ELSE << >>)
    ELSE (IF p \in keys(pos) THEN pos[p] ELSE << >>)

Bucket(p) == BucketIn(negitems, pzero, positems, p)

\* Every key in use, 0 standing for the zero bucket.
AllKeys == keys(negitems) \cup keys(positems) \cup {0}

\* The (item, priority) pairs held in the three structures.
Held == UNION {{<<Bucket(p)[i], p>> : i \in 1 .. Len(Bucket(p))} : p \in AllKeys}

RECURSIVE Without(_, _)
Without(s, x) ==
    IF s = << >> THEN << >>
    ELSE IF Head(s) = x THEN Without(Tail(s), x)
    ELSE <<Head(s)>> \o Without(Tail(s), x)

NonDecreasing(s) == \A i \in 1 .. Len(s) - 1 : s[i][2] <= s[i + 1][2]

SetOf(s) == {s[i] : i \in 1 .. Len(s)}

\* C12: every key of the negative mapping is a negative integer with a
\* non-empty deque, every key of the positive mapping a positive integer
\* with a non-empty deque, and the pop that takes the last item of a bucket
\* removes the bucket's key in the same step.
C12_KeysSignedAndNonEmpty ==
    /\ [](/\ \A k \in keys(negitems) : k < 0 /\ negitems[k] # << >>
          /\ \A k \in keys(positems) : k > 0 /\ positems[k] # << >>)
    /\ [][(IsPop /\ ~raised' /\ Len(Bucket(ret'[2])) = 1) =>
             (ret'[2] \notin keys(negitems') /\ ret'[2] \notin keys(positems'))]_vars

\* A pop took the last item of a negative bucket while another negative
\* bucket and a positive bucket stay.
C12_Witness ==
    /\ op = "pop" /\ ~raised /\ ret[2] < 0
    /\ ret[2] \notin keys(negitems)
    /\ keys(negitems) # {} /\ keys(positems) # {}

\* C13: the pairs held in the buckets are the pairs pushed and not yet
\* returned, every item being held once and in the bucket of the priority it
\* was pushed with; pop returns a pending pair and takes only that item
\* away, the other items keeping their bucket and their order.
C13_ItemsInOwnBucket ==
    /\ [](Held = SetOf(pending) /\ Length = Len(pending))
    /\ [][(IsPop /\ ~raised') =>
             /\ ret' \in SetOf(pending)
             /\ \A p \in Priorities :
                   BucketIn(negitems', pzero', positems', p)
                      = IF p = ret'[2] THEN Without(Bucket(p), ret'[1])
                        ELSE Bucket(p)]_vars

\* A pop took one of three items of a bucket, a bucket of another priority
\* being in use.
C13_Witness ==
    /\ op = "pop" /\ ~raised
    /\ Len(Bucket(ret[2])) = 2
    /\ Cardinality(PrioritiesOf(pending)) = 2

\* The state that repeated pop calls leave when one raises.
RECURSIVE Drained(_, _, _)
Drained(neg, zero, pos) ==
    LET r == pop(neg, zero, pos)
    IN IF r.raised THEN [neg |-> neg, zero |-> zero, pos |-> pos]
       ELSE Drained(r.neg, r.zero, r.pos)

\* C14: from a state holding n items, pops alone return exactly n pairs,
\* with non-decreasing priorities, and the pop after them raises the
\* empty-queue error; two pops in a row never return a decreasing priority.
C14_DrainIsOrderedAndComplete ==
    /\ [](LET d == Drain(negitems, pzero, positems)
              e == Drained(negitems, pzero, positems)
          IN /\ Len(d) = Len(pending)
             /\ Len(d) = Length
             /\ NonDecreasing(d)
             /\ pop(e.neg, e.zero, e.pos).raised
             /\ length(e.neg, e.zero, e.pos) = 0)
    /\ [][(op = "pop" /\ ~raised /\ IsPop /\ ~raised') => ret[2] <= ret'[2]]_vars

\* A pop has returned and three items of three priorities, negative, zero
\* and positive, are left to drain.
C14_Witness ==
    /\ op = "pop" /\ ~raised
    /\ Length = 3
    /\ \E n, p \in Priorities :
          n < 0 /\ p > 0 /\ PrioritiesOf(pending) = {n, 0, p}

\* C16: a complete traversal (either variant) yields every pending pair once,
\* as many pairs as length(), each item with the priority it was pushed
\* with, in non-decreasing order of priority.
C16_IterateYieldsAllOnceInPriorityOrder ==
    op = "iter" =>
        /\ Len(yielded) = Length
        /\ Len(yielded) = Len(pending)
        /\ SetOf(yielded) = SetOf(pending)
        /\ NonDecreasing(yielded)

\* A traversal over four items in a negative bucket, the zero bucket and a
\* positive bucket.
C16_Witness ==
    /\ op = "iter" /\ Len(yielded) = 4
    /\ keys(negitems) # {} /\ Len(pzero) = 2 /\ keys(positems) # {}

----------------------------------------------------------------------------
(* Claims about equivalent queues *)

TwinBucket(p) == BucketIn(twin.neg, twin.zero, twin.pos, p)

\* C11: a PriorityQueue and a PriorityStack given the same push and pop calls
\* have at every step the same length(), the same pending priorities with as
\* many items each, and their pops return the same priority or both raise.
C11_VariantsAgreeOnPriorities ==
    /\ Length = length(twin.neg, twin.zero, twin.pos)
    /\ keys(negitems) = keys(twin.neg)
    /\ keys(positems) = keys(twin.pos)
    /\ \A p \in Priorities : Len(Bucket(p)) = Len(TwinBucket(p))
    /\ raised = twin.raised
    /\ (ret = << >>) = (twin.ret = << >>)
    /\ ret # << >> => ret[2] = twin.ret[2]

\* Both pops returned priority 0 but different items, items of other
\* priorities being pending.
C11_Witness ==
    /\ op = "pop" /\ ~raised /\ ~twin.raised
    /\ ret[2] = 0 /\ twin.ret[2] = 0 /\ ret[1] # twin.ret[1]
    /\ keys(positems) # {} /\ npop >= 2

RefBucket(p) == IF p \in DOMAIN ref THEN ref[p] ELSE << >>

\* C15: the queue with its zero-priority field returns what a reference queue
\* with a single mapping from priority (0 included) to deque returns, for
\* every sequence of push, pop, length and isEmpty calls and both variants.
C15_EquivalentToSingleMapping ==
    /\ [](/\ Length = RefLength(ref)
          /\ IsEmpty = RefIsEmpty(ref)
          /\ \A p \in Priorities : Bucket(p) = RefBucket(p))
    /\ [][IsPop => (raised' = RefPop(ref).raised /\ ret' = RefPop(ref).t)]_vars

\* A pop returned an item of priority 0 while the reference holds priority 0
\* and a positive priority as keys of its one mapping.
C15_Witness ==
    /\ op = "pop" /\ ~raised /\ ret[2] = 0
    /\ 0 \in DOMAIN ref /\ \E p \in DOMAIN ref : p > 0
    /\ npop >= 2

----------------------------------------------------------------------------
(* Claims about an iterator advanced between other calls *)

\* The step is a next() call on the iterator.
IsNext == op' = "next"

\* C17: advancing an iterator never changes the buckets, also when pops ran
\* between iter() and next(): the iterator adds no key to the negative or
\* the positive mapping, and no key maps to an empty deque.
C17_AdvanceLeavesBuckets ==
    /\ [][IsNext => (/\ negitems' = negitems
                     /\ pzero' = pzero
                     /\ positems' = positems)]_vars
    /\ [](/\ \A k \in keys(negitems) : negitems[k] # << >>
          /\ \A k \in keys(positems) : positems[k] # << >>)

\* C18: with iterators being made and advanced between pushes and pops,
\* whenever length() > 0 the next pop returns a pending item, and isEmpty()
\* is true exactly when length() = 0.
C18_CheckThenPopIsSafe ==
    /\ [][(IsPop /\ Length > 0) => (~raised' /\ ret' \in SetOf(pending))]_vars
    /\ [](IsEmpty <=> (Length = 0))

----------------------------------------------------------------------------
(* CaselessDict                                                             *)
(*                                                                         *)
(* A key is a string, a sequence of characters; cd maps the stored keys to  *)
(* their values.                                                            *)

\* The longest key
MaxKeyLen == 2

Chars == {"a", "A"}
UpperChars == {"A"}

CKeys == UNION {[1..n -> Chars] : n \in 1..MaxKeyLen}
CValues == {"v", "w"}

\* str.lower
lower(key) == [i \in DOMAIN key |-> IF key[i] = "A" THEN "a" ELSE key[i]]

\* Faulty variant: the key is used as it is given.
normkey_AsGiven(key) == key

normkey(key) == lower(key)

normvalue(value) == value

CD_getitem(d, key) ==
    IF normkey(key) \in DOMAIN d THEN d[normkey(key)] ELSE "KeyError"

CD_setitem(d, key, value) == SetItem(d, normkey(key), normvalue(value))

\* del self[key]: the dictionary afterwards and what the statement did
CD_delitem(d, key) ==
    IF normkey(key) \in DOMAIN d
    THEN [dict |-> DelItem(d, normkey(key)), result |-> "None"]
    ELSE [dict |-> d, result |-> "KeyError"]

CD_contains(d, key) == normkey(key) \in DOMAIN d

CD_get(d, key, def_val) ==
    IF normkey(key) \in DOMAIN d THEN d[normkey(key)] ELSE normvalue(def_val)

CD_setdefault(d, key, def_val) ==
    IF normkey(key) \in DOMAIN d
    THEN [dict |-> d, result |-> d[normkey(key)]]
    ELSE [dict |-> SetItem(d, normkey(key), normvalue(def_val)),
          result |-> normvalue(def_val)]

\* seq is the sequence of (key, value) pairs that iterating over the argument
\* gives, the argument being a dict or a sequence of pairs
RECURSIVE CD_update(_, _)
CD_update(d, seq) ==
    IF seq = << >> THEN d
    ELSE CD_update(SetItem(d, normkey(Head(seq)[1]), normvalue(Head(seq)[2])),
                   Tail(seq))

CD_init(seq) == IF seq # << >> THEN CD_update(EmptyDict, seq) ELSE EmptyDict

\* self.pop(key, *args): args is empty or holds the default
CD_pop(d, key, args) ==
    IF normkey(key) \in DOMAIN d
    THEN [dict |-> DelItem(d, normkey(key)), result |-> d[normkey(key)]]
    ELSE IF args = << >> THEN [dict |-> d, result |-> "KeyError"]
    ELSE [dict |-> d, result |-> args[1]]

\* two keys that differ only in letter case
SameButCase(k1, k2) ==
    /\ Len(k1) = Len(k2)
    /\ \A i \in DOMAIN k1 : k1[i] = k2[i] \/ {k1[i], k2[i]} = {"a", "A"}

\* The sequences of pairs given: none, one pair, or two pairs whose keys
\* differ at most in letter case.
PairSeqs ==
    {<< >>}
    \cup {<<(<<k, v>>)>> : k \in CKeys, v \in CValues}
    \cup {<<(<<kk[1], "v">>), (<<kk[2], "w">>)>> :
             kk \in {p \in CKeys \X CKeys : SameButCase(p[1], p[2])}}

CdCall(d, call) ==
    /\ cd' = d
    /\ ccall' = call
    /\ UNCHANGED <<qvars, twin, it, out, mvd, heap, mcall>>

\* CaselessDict(seq) takes the place of the dictionary
CdConstruct ==
    \E seq \in PairSeqs :
       CdCall(CD_init(seq), [NoCaselessCall EXCEPT !.name = "construct", !.seq = seq])

CdSetItem ==
    \E key \in CKeys, value \in CValues :
       CdCall(CD_setitem(cd, key, value),
              [NoCaselessCall EXCEPT !.name = "setitem", !.key = key,
                                     !.value = value])

CdSetDefault ==
    \E key \in CKeys, def_val \in CValues \cup {"None"} :
       LET r == CD_setdefault(cd, key, def_val)
       IN CdCall(r.dict, [NoCaselessCall EXCEPT !.name = "setdefault", !.key = key,
                                                !.value = def_val,
                                                !.result = r.result])

CdUpdate ==
    \E seq \in PairSeqs :
       CdCall(CD_update(cd, seq),
              [NoCaselessCall EXCEPT !.name = "update", !.seq = seq])

CdDelItem ==
    \E key \in CKeys :
       LET r == CD_delitem(cd, key)
       IN CdCall(r.dict, [NoCaselessCall EXCEPT !.name = "delitem", !.key = key,
                                                !.result = r.result])

CdPop ==
    \E key \in CKeys, args \in {<< >>, <<"w">>} :
       LET r == CD_pop(cd, key, args)
       IN CdCall(r.dict, [NoCaselessCall EXCEPT !.name = "pop", !.key = key,
                                                !.args = args,
                                                !.result = r.result])

NextCaseless ==
    CdConstruct \/ CdSetItem \/ CdSetDefault \/ CdUpdate \/ CdDelItem \/ CdPop

SpecCaseless == Init /\ [][NextCaseless]_vars

----------------------------------------------------------------------------
(* Claims about MultiValueDict *)

ListOf(d, h, key) == MVD_getlist([d |-> d, heap |-> h], key)
GetList(key) == MVD_getlist(Self, key)

IsMvd(name) == mcall'.name = name

\* the list a (key, x) sequence holds for the key, x being a list
ListFor(pairs, key) ==
    IF \E i \in DOMAIN pairs : pairs[i][1] = key
    THEN pairs[CHOOSE i \in DOMAIN pairs : pairs[i][1] = key][2]
    ELSE << >>

\* the value a (key, x) sequence holds for the key, as a list of one or none
ValueFor(pairs, key) ==
    IF \E i \in DOMAIN pairs : pairs[i][1] = key
    THEN <<pairs[CHOOSE i \in DOMAIN pairs : pairs[i][1] = key][2]>>
    ELSE << >>

\* the values an update call holds for the key, in order
Given(call, key) ==
    (IF call.other = "MultiValueDict" THEN ListFor(call.lists, key)
     ELSE ValueFor(call.items, key)) \o ValueFor(call.kwargs, key)

\* no list object is stored under two keys
Unshared == \A k1, k2 \in DOMAIN mvd : k1 # k2 => mvd[k1] # mvd[k2]

\* d[key] = value, setlist and appendlist give the key the list they say
SingleKeyCalls ==
    /\ IsMvd("setitem") => ListOf(mvd', heap', mcall'.key) = <<mcall'.value>>
    /\ IsMvd("setlist") => ListOf(mvd', heap', mcall'.key) = mcall'.list_
    /\ IsMvd("appendlist") =>
          ListOf(mvd', heap', mcall'.key) = GetList(mcall'.key) \o <<mcall'.value>>

\* update gives every key its list followed by the values given for it
UpdateExtends ==
    \A key \in Keys : ListOf(mvd', heap', key) = GetList(key) \o Given(mcall', key)

\* C19 as stated: after set, setlist, appendlist and update calls getlist(key)
\* is the list of the key's values, empty when absent, d[key] and get(key)
\* return its last element, and update(other) leaves every key with its list
\* followed by other's values for it, the keys not in other unchanged.
C19_UpdateExtendsEveryList ==
    /\ [](\A key \in Keys :
            /\ key \notin DOMAIN mvd => GetList(key) = << >>
            /\ GetList(key) # << >> =>
                  /\ MVD_getitem(Self, key) = Last(GetList(key))
                  /\ MVD_get(Self, key, "None") = Last(GetList(key)))
    /\ [][SingleKeyCalls /\ (IsMvd("update") => UpdateExtends)]_vars

\* C19 amended: as C19, but get(key) returns the default when the last element
\* equals [], and update(other) is as stated when no list object is stored
\* under two keys.
C19_UpdateExtendsUnsharedLists ==
    /\ [](\A key \in Keys :
            /\ key \notin DOMAIN mvd => GetList(key) = << >>
            /\ GetList(key) # << >> =>
                  /\ MVD_getitem(Self, key) = Last(GetList(key))
                  /\ MVD_get(Self, key, "None") =
                        IF Last(GetList(key)) = "[]" THEN "None"
                        ELSE Last(GetList(key)))
    /\ [][SingleKeyCalls /\ (IsMvd("update") /\ Unshared => UpdateExtends)]_vars

\* update has put two values behind the one that x had, y being in use and
\* not in other
C19_Witness ==
    /\ mcall.name = "update"
    /\ mcall.other = "MultiValueDict"
    /\ Len(ListFor(mcall.lists, "x")) = 2
    /\ Given(mcall, "y") = << >>
    /\ Len(GetList("x")) = 3
    /\ GetList("y") # << >>
    /\ Unshared

----------------------------------------------------------------------------
(* Claims about CaselessDict *)

IsLowerCase(key) == \A i \in DOMAIN key : key[i] \notin UpperChars

\* C20: after construction from a sequence, set, setdefault, update, del and
\* pop calls every stored key is lower-case; get, contains, del and pop give
\* the same result for two keys that differ only in letter case; a value
\* stored is the value returned.
C20_KeysLowerCaseLookupsCaseless ==
    /\ [](\A key \in DOMAIN cd : IsLowerCase(key))
    /\ [](\A k1, k2 \in CKeys :
            SameButCase(k1, k2) =>
               /\ \A def_val \in CValues \cup {"None"} :
                     CD_get(cd, k1, def_val) = CD_get(cd, k2, def_val)
               /\ CD_contains(cd, k1) <=> CD_contains(cd, k2)
               /\ CD_delitem(cd, k1) = CD_delitem(cd, k2)
               /\ \A args \in {<< >>, <<"w">>} :
                     CD_pop(cd, k1, args) = CD_pop(cd, k2, args))
    /\ [][/\ ccall'.name = "setitem" =>
               \A key \in CKeys :
                  SameButCase(key, ccall'.key) =>
                     CD_get(cd', key, "None") = ccall'.value
          /\ ccall'.name = "pop" /\ (\E key \in DOMAIN cd :
                                         SameButCase(key, ccall'.key)) =>
               ccall'.result = cd[CHOOSE key \in DOMAIN cd :
                                     SameButCase(key, ccall'.key)]]_vars

\* a value has been set under a key with a capital while another key is stored
C20_Witness ==
    /\ ccall.name = "setitem"
    /\ ~IsLowerCase(ccall.key)
    /\ Cardinality(DOMAIN cd) > 1
    /\ \E key \in DOMAIN cd : SameButCase(key, ccall.key) /\ cd[key] = ccall.value

====
